---- MODULE Spec2Model ----
(***************************************************************************)
(* State-machine model of the mern-todo application: the Express server   *)
(* (src/server.js) with its MongoDB collections, and the React client's   *)
(* session and todo contexts (src/client/src/context/AuthContext.tsx).    *)
(*                                                                         *)
(* A request handler is split at its awaits on the store: every store     *)
(* operation (findOne, save, findById, deleteOne) is one atomic step, and *)
(* the synchronous code around it belongs to the step.                     *)
(***************************************************************************)
EXTENDS Integers, Sequences, FiniteSets, TLC

VARIABLES
  now,              \* the clock, in seconds (Date.now() / 1000)
  ticks,            \* number of clock steps taken (bounds the clock)
  useInMemoryDb,    \* server.js: let useInMemoryDb
  mongoConnect,     \* how far the mongoose.connect(...).then/.catch chain has come
  inMemoryDb,       \* server.js: const inMemoryDb = { todos: [], users: [] }
  User,             \* the MongoDB users collection (a set of documents)
  Todo,             \* the MongoDB todos collection (a set of documents)
  nextUid,          \* next ObjectId the driver generates for a user
  nextOid,          \* next ObjectId the driver generates for a todo
  reqs,             \* the requests the server is handling, per connection slot
  localStorage,     \* the browser's localStorage 'token' item
  axiosAuth,        \* axios.defaults.headers.common['Authorization']
  token,            \* AuthProvider state
  user,             \* AuthProvider state
  isAuthenticated,  \* AuthProvider state
  loading,          \* AuthProvider state
  error,            \* AuthProvider state
  todos,            \* TodoProvider state
  todoLoading,      \* TodoProvider state (loading)
  todoError,        \* TodoProvider state (error)
  authDeps,         \* dependency array [token] of the last run of the auth effect
  todoDeps,         \* dependency array [isAuthenticated, token] of the last run of the todo effect
  sent              \* the last request the client sent: what it carried, and the token held then

clkVars == <<now, ticks>>
srvVars == <<useInMemoryDb, mongoConnect, inMemoryDb, User, Todo, nextUid, nextOid>>
netVars == <<reqs>>
authVars == <<localStorage, axiosAuth, token, user, isAuthenticated, loading, error, authDeps>>
todoVars == <<todos, todoLoading, todoError, todoDeps>>
appVars == <<authVars, todoVars, sent>>
vars == <<clkVars, srvVars, netVars, appVars>>

----------------------------------------------------------------------------
(* Bounds of the model *)

MaxTicks == 2        \* clock steps in a run
MaxUsers == 3        \* user documents ever constructed (new User)
MaxCreates == 2      \* todo documents ever created

Slots == {1, 2}      \* connections the server handles at a time
OneSlot == {1}       \* one request after the other

(* Program constants *)
Day == 86400                         \* jwt.sign expiresIn: '1d', in seconds
JWT_SECRET == "your_jwt_secret"

----------------------------------------------------------------------------
(* Values *)

Names == {"Ann", ""}
Emails == {"ann@x.io", "bob@x.io", ""}
Passwords == {"secret1", "secret2", ""}

\* null, as a value of user or error
Null == [null |-> TRUE]

\* JavaScript values of a JSON body field
Undefined == [t |-> "undefined"]
JsString(s) == [t |-> "string", v |-> s]
JsNumber(n) == [t |-> "number", v |-> n]
JsBoolean(b) == [t |-> "boolean", v |-> b]

\* typeof x
TypeOf(x) == x.t

\* !!x
Truthy(x) ==
  CASE x.t = "undefined" -> FALSE
    [] x.t = "string" -> x.v # <<>>
    [] x.t = "number" -> x.v # 0
    [] x.t = "boolean" -> x.v

WhiteSpace == {" "}

\* The title strings sent: empty, blank, plain, and padded on both sides
TitleStrings == {<<>>, <<" ">>, <<"a">>, <<" ", "b", " ">>}

RECURSIVE TrimStart(_)
TrimStart(s) ==
  IF s # <<>> /\ Head(s) \in WhiteSpace THEN TrimStart(Tail(s)) ELSE s

RECURSIVE TrimEnd(_)
TrimEnd(s) ==
  IF s # <<>> /\ s[Len(s)] \in WhiteSpace THEN TrimEnd(SubSeq(s, 1, Len(s) - 1)) ELSE s

\* Faulty variant: trimStart in the place of trim
TrimMut(s) == TrimStart(s)

\* String.prototype.trim
Trim(s) == TrimEnd(TrimStart(s))

\* A todo id as it appears in a URL: the hex string of ObjectId n, or some
\* other string (Date.now().toString() of the in-memory store, or anything else)
ObjectId(n) == [hex |-> TRUE, n |-> n]
OtherId(n) == [hex |-> FALSE, n |-> n]

\* mongoose.Types.ObjectId.isValid
IsValidObjectId(id) == id.hex

----------------------------------------------------------------------------
(* Session tokens *)

NoToken == [kind |-> "none"]
Garbage == [kind |-> "garbage"]

\* jwt.sign({ userId }, secret, { expiresIn: '1d' }) at time t
JwtSign(userId, secret, t) ==
  [kind |-> "jwt", userId |-> userId, iat |-> t, exp |-> t + Day, sig |-> secret]

----------------------------------------------------------------------------
(* The store: the Mongoose models (models/user.js and models/todo.js are   *)
(* not among the sources; what the schemas enforce is taken from the       *)
(* specification's data model)                                             *)

\* The pre-save hook's salted digest of a password: one-way, never the plaintext
Hash(pw) == <<"digest", pw>>

\* user.comparePassword(candidate)
ComparePassword(u, candidate) == u.password = Hash(candidate)

\* Faulty variant: the query names the wrong field
UsersWithEmailMut(email) == {u \in User : u.name = email}

\* User.findOne({ email }): the first matching document, if any
UsersWithEmail(email) == {u \in User : u.email = email}
FindOneUser(email) ==
  CHOOSE u \in UsersWithEmail(email) : \A w \in UsersWithEmail(email) : u._id.n <= w._id.n

\* The unique index on User.email: a save of a second document with the email
\* fails with the driver's duplicate key error
UniqueEmailViolated(doc) == \E u \in User : u.email = doc.email

DuplicateKeyError == [name |-> "MongoServerError", code |-> 11000]
ValidationError == [name |-> "ValidationError", code |-> 0]
DocumentNotFoundError == [name |-> "DocumentNotFoundError", code |-> 0]

\* Todo schema: title is a required string, so an empty title fails validation
TodoTitleInvalid(title) == title = <<>>

\* Faulty variant: the query has no filter
TodosWithIdMut(id) == Todo

\* Todo.findById(id)
TodosWithId(id) == {d \in Todo : d._id = id}
FindTodoById(id) == CHOOSE d \in TodosWithId(id) : TRUE

----------------------------------------------------------------------------
(* Requests in flight *)

Idle == [pc |-> "idle"]

\* res.status(..).json(..) at the place `at` of the handler: the handler ends and
\* the response travels back to whoever sent the request
Respond(s, src, req, at, resp) ==
  reqs' = [reqs EXCEPT ![s] = [pc |-> "done", src |-> src, req |-> req, at |-> at, resp |-> resp]]

\* await <store operation>: the handler continues at pc with its locals
Await(s, src, req, pc, local) ==
  reqs' = [reqs EXCEPT ![s] = [pc |-> pc, src |-> src, req |-> req, local |-> local]]

\* The error handling middleware, app.use((err, req, res, next) => ...)
ErrorMiddleware(err) ==
  IF err.name = "ValidationError"
    THEN [status |-> 400, message |-> "Validation Error"]
  ELSE IF err.code = 11000
    THEN [status |-> 400, message |-> "Duplicate field value entered"]
  ELSE [status |-> 500, message |-> "Something went wrong!"]

----------------------------------------------------------------------------
(* POST /api/auth/register *)

RegisterStart(s, src, req) ==
  IF req.name = "" \/ req.email = "" \/ req.password = ""
    THEN /\ Respond(s, src, req, "register:missing",
                    [status |-> 400, message |-> "Please provide all required fields"])
         /\ UNCHANGED srvVars
  ELSE IF useInMemoryDb
    THEN IF \E i \in 1..Len(inMemoryDb.users) : inMemoryDb.users[i].email = req.email
           THEN /\ Respond(s, src, req, "register:exists",
                           [status |-> 400, message |-> "User with this email already exists"])
                /\ UNCHANGED srvVars
           ELSE /\ inMemoryDb' = [inMemoryDb EXCEPT !.users =
                     Append(@, [id |-> OtherId(now), name |-> req.name,
                                email |-> req.email, password |-> req.password])]
                /\ Respond(s, src, req, "register:created",
                           [status |-> 201, message |-> "User registered successfully"])
                /\ UNCHANGED <<useInMemoryDb, mongoConnect, User, Todo, nextUid, nextOid>>
  ELSE IF UsersWithEmail(req.email) # {}
    THEN /\ Respond(s, src, req, "register:exists",
                    [status |-> 400, message |-> "User with this email already exists"])
         /\ UNCHANGED srvVars
  ELSE \* new User({ name, email, password }): the document gets its _id here
       /\ nextUid <= MaxUsers
       /\ nextUid' = nextUid + 1
       /\ Await(s, src, req, "register:save",
                [_id |-> ObjectId(nextUid), name |-> req.name,
                 email |-> req.email, password |-> req.password])
       /\ UNCHANGED <<useInMemoryDb, mongoConnect, inMemoryDb, User, Todo, nextOid>>

\* Faulty variant: the error of save is swallowed and the request answered 201
RegisterSaveMut(s) ==
  /\ reqs[s].pc = "register:save"
  /\ LET r == reqs[s]
         doc == [r.local EXCEPT !.password = Hash(@)]
     IN /\ User' = IF UniqueEmailViolated(doc) THEN User ELSE User \cup {doc}
        /\ Respond(s, r.src, r.req, "register:created",
                   [status |-> 201, message |-> "User registered successfully"])
  /\ UNCHANGED <<clkVars, useInMemoryDb, mongoConnect, inMemoryDb, Todo, nextUid, nextOid, appVars>>

\* await user.save(), and the response after it
RegisterSave(s) ==
  /\ reqs[s].pc = "register:save"
  /\ LET r == reqs[s]
         doc == [r.local EXCEPT !.password = Hash(@)]
     IN IF UniqueEmailViolated(doc)
          THEN \* saveError is no ValidationError: rethrown, next(error)
               /\ Respond(s, r.src, r.req, "register:error", ErrorMiddleware(DuplicateKeyError))
               /\ UNCHANGED User
          ELSE /\ User' = User \cup {doc}
               /\ Respond(s, r.src, r.req, "register:created",
                          [status |-> 201, message |-> "User registered successfully"])
  /\ UNCHANGED <<clkVars, useInMemoryDb, mongoConnect, inMemoryDb, Todo, nextUid, nextOid, appVars>>

----------------------------------------------------------------------------
(* POST /api/auth/login *)

\* Faulty variant: an unknown email is told apart
NoUserResponseMut == [status |-> 404, message |-> "User not found"]

\* The two refusals of the MongoDB flow
NoUserResponse == [status |-> 401, message |-> "Invalid credentials"]
NoMatchResponse == [status |-> 401, message |-> "Invalid credentials"]

LoginStart(s, src, req) ==
  IF req.email = "" \/ req.password = ""
    THEN Respond(s, src, req, "login:missing",
                 [status |-> 400, message |-> "Please provide email and password"])
  ELSE IF useInMemoryDb
    THEN LET found == {i \in 1..Len(inMemoryDb.users) : inMemoryDb.users[i].email = req.email}
         IN IF found = {} \/ inMemoryDb.users[CHOOSE i \in found : \A j \in found : i <= j].password # req.password
              THEN Respond(s, src, req, "login:memory-invalid",
                           [status |-> 401, message |-> "Invalid credentials"])
              ELSE LET u == inMemoryDb.users[CHOOSE i \in found : \A j \in found : i <= j]
                   IN Respond(s, src, req, "login:ok",
                              [status |-> 200, message |-> "Login successful",
                               user |-> [id |-> u.id, name |-> u.name, email |-> u.email],
                               token |-> JwtSign(u.id, JWT_SECRET, now)])
  ELSE IF UsersWithEmail(req.email) = {}
    THEN Respond(s, src, req, "login:no-user", NoUserResponse)
  ELSE Await(s, src, req, "login:compare", FindOneUser(req.email))

\* await user.comparePassword(password), jwt.sign and the response
LoginCompare(s) ==
  /\ reqs[s].pc = "login:compare"
  /\ LET r == reqs[s]
         u == r.local
     IN IF ~ComparePassword(u, r.req.password)
          THEN Respond(s, r.src, r.req, "login:bad-password", NoMatchResponse)
          ELSE Respond(s, r.src, r.req, "login:ok",
                       [status |-> 200, message |-> "Login successful",
                        user |-> [id |-> u._id, name |-> u.name, email |-> u.email],
                        token |-> JwtSign(u._id, JWT_SECRET, now)])
  /\ UNCHANGED <<clkVars, srvVars, appVars>>

----------------------------------------------------------------------------
(* GET /api/todos *)

Range(q) == {q[i] : i \in 1..Len(q)}

\* Faulty variant: the sort key is updatedAt
SortedNewestFirstMut(S) ==
  {q \in [1..Cardinality(S) -> S] :
     /\ Range(q) = S
     /\ \A i, j \in 1..Cardinality(S) : i < j => q[i].updatedAt >= q[j].updatedAt}

\* Todo.find().sort({ createdAt: -1 }): every order of the documents that is
\* descending in createdAt (the order among equal createdAt is the store's)
SortedNewestFirst(S) ==
  {q \in [1..Cardinality(S) -> S] :
     /\ Range(q) = S
     /\ \A i, j \in 1..Cardinality(S) : i < j => q[i].createdAt >= q[j].createdAt}

\* Faulty variant: the query leaves the completed todos out
ListStartMut(s, src, req) ==
  IF useInMemoryDb
    THEN Respond(s, src, req, "list:memory", [status |-> 200, todos |-> inMemoryDb.todos])
    ELSE \E q \in SortedNewestFirst({d \in Todo : ~d.completed}) :
           Respond(s, src, req, "list:ok", [status |-> 200, todos |-> q])

\* The whole handler: countDocuments only feeds a log line
ListStart(s, src, req) ==
  IF useInMemoryDb
    THEN Respond(s, src, req, "list:memory", [status |-> 200, todos |-> inMemoryDb.todos])
    ELSE \E q \in SortedNewestFirst(Todo) :
           Respond(s, src, req, "list:ok", [status |-> 200, todos |-> q])

----------------------------------------------------------------------------
(* POST /api/todos *)

CreateStart(s, src, req) ==
  IF ~Truthy(req.title) \/ TypeOf(req.title) # "string"
    THEN /\ Respond(s, src, req, "create:invalid",
                    [status |-> 400, message |-> "Title is required and must be a string"])
         /\ UNCHANGED srvVars
  ELSE IF useInMemoryDb
    THEN LET newTodo == [_id |-> OtherId(now), title |-> Trim(req.title.v),
                         completed |-> FALSE, createdAt |-> now, updatedAt |-> now]
         IN /\ inMemoryDb' = [inMemoryDb EXCEPT !.todos = <<newTodo>> \o @]
            /\ Respond(s, src, req, "create:memory", [status |-> 201, todo |-> newTodo])
            /\ UNCHANGED <<useInMemoryDb, mongoConnect, User, Todo, nextUid, nextOid>>
  ELSE \* new Todo({ title: title.trim(), completed: false }); await todo.save()
       LET doc == [_id |-> ObjectId(nextOid), title |-> Trim(req.title.v),
                   completed |-> FALSE, createdAt |-> now, updatedAt |-> now]
       IN IF TodoTitleInvalid(doc.title)
            THEN \* the schema rejects the document (its _id is never seen): next(error)
                 /\ Respond(s, src, req, "create:error", ErrorMiddleware(ValidationError))
                 /\ UNCHANGED srvVars
            ELSE /\ nextOid <= MaxCreates
                 /\ nextOid' = nextOid + 1
                 /\ Todo' = Todo \cup {doc}
                 /\ Respond(s, src, req, "create:ok", [status |-> 201, todo |-> doc])
                 /\ UNCHANGED <<useInMemoryDb, mongoConnect, inMemoryDb, User, nextUid>>

----------------------------------------------------------------------------
(* PATCH /api/todos/:id *)

IndexOfId(q, id) ==
  IF \E i \in 1..Len(q) : q[i]._id = id
    THEN CHOOSE i \in 1..Len(q) : q[i]._id = id /\ \A j \in 1..(i - 1) : q[j]._id # id
    ELSE 0

\* The in-memory branch works on the stored object itself: an assignment made
\* before a later check fails stays made
UpdateInMemory(s, src, req) ==
  LET todoIndex == IndexOfId(inMemoryDb.todos, req.id)
      todo == inMemoryDb.todos[todoIndex]
      titled == IF req.title # Undefined THEN [todo EXCEPT !.title = Trim(req.title.v)] ELSE todo
      flagged == IF req.completed # Undefined THEN [titled EXCEPT !.completed = req.completed.v] ELSE titled
      stamped == [flagged EXCEPT !.updatedAt = now]
  IN IF todoIndex = 0
       THEN /\ Respond(s, src, req, "update:memory-missing",
                       [status |-> 404, message |-> "Todo not found"])
            /\ UNCHANGED inMemoryDb
     ELSE IF req.title # Undefined /\ TypeOf(req.title) # "string"
       THEN /\ Respond(s, src, req, "update:memory-title",
                       [status |-> 400, message |-> "Title must be a string"])
            /\ UNCHANGED inMemoryDb
     ELSE IF req.completed # Undefined /\ TypeOf(req.completed) # "boolean"
       THEN /\ Respond(s, src, req, "update:memory-completed",
                       [status |-> 400, message |-> "Completed must be a boolean"])
            /\ inMemoryDb' = [inMemoryDb EXCEPT !.todos[todoIndex] = titled]
     ELSE /\ Respond(s, src, req, "update:memory-ok", [status |-> 200, todo |-> stamped])
          /\ inMemoryDb' = [inMemoryDb EXCEPT !.todos[todoIndex] = stamped]

\* Faulty variant: a flag that the body leaves out is reset
AssignMut(todo, req) ==
  LET titled == IF req.title # Undefined THEN [todo EXCEPT !.title = Trim(req.title.v)] ELSE todo
  IN [titled EXCEPT !.completed = IF req.completed # Undefined THEN req.completed.v ELSE FALSE]

\* todo.title = req.body.title.trim() and todo.completed = req.body.completed,
\* each only for a field the body has
Assign(todo, req) ==
  LET titled == IF req.title # Undefined THEN [todo EXCEPT !.title = Trim(req.title.v)] ELSE todo
  IN IF req.completed # Undefined THEN [titled EXCEPT !.completed = req.completed.v] ELSE titled

UpdateStart(s, src, req) ==
  IF useInMemoryDb
    THEN UpdateInMemory(s, src, req)
  ELSE IF ~IsValidObjectId(req.id)
    THEN /\ Respond(s, src, req, "update:invalid-id",
                    [status |-> 400, message |-> "Invalid todo ID"])
         /\ UNCHANGED inMemoryDb
  ELSE IF TodosWithId(req.id) = {}
    THEN /\ Respond(s, src, req, "update:missing",
                    [status |-> 404, message |-> "Todo not found"])
         /\ UNCHANGED inMemoryDb
  ELSE IF req.title # Undefined /\ TypeOf(req.title) # "string"
    THEN /\ Respond(s, src, req, "update:title",
                    [status |-> 400, message |-> "Title must be a string"])
         /\ UNCHANGED inMemoryDb
  ELSE IF req.completed # Undefined /\ TypeOf(req.completed) # "boolean"
    THEN /\ Respond(s, src, req, "update:completed",
                    [status |-> 400, message |-> "Completed must be a boolean"])
         /\ UNCHANGED inMemoryDb
  ELSE \* the loaded document with the assignments made on it, not yet saved
       LET todo == FindTodoById(req.id)
       IN /\ Await(s, src, req, "update:save", [loaded |-> todo, doc |-> Assign(todo, req)])
          /\ UNCHANGED inMemoryDb

\* The paths of a loaded document that its assignments changed: save() writes these
ModifiedPaths(local) ==
  {p \in {"title", "completed"} : local.doc[p] # local.loaded[p]}

\* The Todo schema's updated-at (models/todo.js): every save of a todo sets it
\* to the time of the save
Touch(doc, t) == [doc EXCEPT !.updatedAt = t]

\* Faulty variant: the save is refused when the stored document is not the loaded one
UpdateSaveMut(s) ==
  /\ reqs[s].pc = "update:save"
  /\ LET r == reqs[s]
         local == r.local
         paths == ModifiedPaths(local)
     IN IF TodoTitleInvalid(local.doc.title)
          THEN /\ Respond(s, r.src, r.req, "update:error", ErrorMiddleware(ValidationError))
               /\ UNCHANGED Todo
        ELSE IF local.loaded \notin Todo
          THEN /\ Respond(s, r.src, r.req, "update:gone", ErrorMiddleware(DocumentNotFoundError))
               /\ UNCHANGED Todo
        ELSE LET stored == FindTodoById(local.doc._id)
                 written == Touch([stored EXCEPT
                               !.title = IF "title" \in paths THEN local.doc.title ELSE @,
                               !.completed = IF "completed" \in paths THEN local.doc.completed ELSE @],
                              now)
             IN /\ Todo' = (Todo \ {stored}) \cup {written}
                /\ Respond(s, r.src, r.req, "update:ok",
                           [status |-> 200, todo |-> Touch(local.doc, now)])
  /\ UNCHANGED <<clkVars, useInMemoryDb, mongoConnect, inMemoryDb, User, nextUid, nextOid, appVars>>

\* await todo.save() of a loaded document, and the response after it. Mongoose
\* validates, then sends the modified paths, with the refreshed updatedAt, as
\* one update of the stored document.
UpdateSave(s) ==
  /\ reqs[s].pc = "update:save"
  /\ LET r == reqs[s]
         local == r.local
         paths == ModifiedPaths(local)
     IN IF TodoTitleInvalid(local.doc.title)
          THEN /\ Respond(s, r.src, r.req, "update:error", ErrorMiddleware(ValidationError))
               /\ UNCHANGED Todo
        ELSE IF TodosWithId(local.doc._id) = {}
          THEN /\ Respond(s, r.src, r.req, "update:gone", ErrorMiddleware(DocumentNotFoundError))
               /\ UNCHANGED Todo
        ELSE LET stored == FindTodoById(local.doc._id)
                 written == Touch([stored EXCEPT
                               !.title = IF "title" \in paths THEN local.doc.title ELSE @,
                               !.completed = IF "completed" \in paths THEN local.doc.completed ELSE @],
                              now)
             IN /\ Todo' = (Todo \ {stored}) \cup {written}
                /\ Respond(s, r.src, r.req, "update:ok",
                           [status |-> 200, todo |-> Touch(local.doc, now)])
  /\ UNCHANGED <<clkVars, useInMemoryDb, mongoConnect, inMemoryDb, User, nextUid, nextOid, appVars>>

----------------------------------------------------------------------------
(* DELETE /api/todos/:id *)

\* Array.prototype.filter(todo => todo._id !== id)
RECURSIVE WithoutId(_, _)
WithoutId(q, id) ==
  IF q = <<>> THEN <<>>
  ELSE IF Head(q)._id = id THEN WithoutId(Tail(q), id)
  ELSE <<Head(q)>> \o WithoutId(Tail(q), id)

DeleteStart(s, src, req) ==
  IF useInMemoryDb
    THEN LET kept == WithoutId(inMemoryDb.todos, req.id)
         IN /\ inMemoryDb' = [inMemoryDb EXCEPT !.todos = kept]
            /\ IF Len(kept) = Len(inMemoryDb.todos)
                 THEN Respond(s, src, req, "delete:memory-missing",
                              [status |-> 404, message |-> "Todo not found"])
                 ELSE Respond(s, src, req, "delete:memory-ok",
                              [status |-> 200, message |-> "Todo deleted successfully"])
  ELSE IF ~IsValidObjectId(req.id)
    THEN /\ Respond(s, src, req, "delete:invalid-id",
                    [status |-> 400, message |-> "Invalid todo ID"])
         /\ UNCHANGED inMemoryDb
  ELSE IF TodosWithId(req.id) = {}
    THEN /\ Respond(s, src, req, "delete:missing",
                    [status |-> 404, message |-> "Todo not found"])
         /\ UNCHANGED inMemoryDb
  ELSE /\ Await(s, src, req, "delete:remove", FindTodoById(req.id))
       /\ UNCHANGED inMemoryDb

\* Faulty variant: the removal has no filter
DeleteRemoveMut(s) ==
  /\ reqs[s].pc = "delete:remove"
  /\ LET r == reqs[s]
     IN /\ Todo' = {}
        /\ Respond(s, r.src, r.req, "delete:ok",
                   [status |-> 200, message |-> "Todo deleted successfully"])
  /\ UNCHANGED <<clkVars, useInMemoryDb, mongoConnect, inMemoryDb, User, nextUid, nextOid, appVars>>

\* await todo.deleteOne(), and the response after it
DeleteRemove(s) ==
  /\ reqs[s].pc = "delete:remove"
  /\ LET r == reqs[s]
     IN /\ Todo' = {d \in Todo : d._id # r.local._id}
        /\ Respond(s, r.src, r.req, "delete:ok",
                   [status |-> 200, message |-> "Todo deleted successfully"])
  /\ UNCHANGED <<clkVars, useInMemoryDb, mongoConnect, inMemoryDb, User, nextUid, nextOid, appVars>>

----------------------------------------------------------------------------
(* The clock *)

\* The time the run starts at: late enough for a token to have expired before it
StartTime == 2 * Day

Tick ==
  /\ ticks < MaxTicks
  /\ ticks' = ticks + 1
  /\ now' = now + 1
  /\ UNCHANGED <<srvVars, netVars, appVars>>

----------------------------------------------------------------------------
(* Requests of arbitrary HTTP clients *)

\* What such a client may put in the Authorization header: nothing, a string
\* that is no token, a token signed with another key, an expired token, and a
\* token the server would accept
ForgedToken == JwtSign(ObjectId(1), "another_secret", StartTime)
ExpiredToken == JwtSign(ObjectId(1), JWT_SECRET, 0)
FreshToken == JwtSign(ObjectId(1), JWT_SECRET, StartTime)
ApiAuths == {NoToken, Garbage, ForgedToken, ExpiredToken, FreshToken}

\* Registration and login bodies: the well-formed ones, and one with each field missing
RegisterBodies ==
  {[kind |-> "register", name |-> "Ann", email |-> e, password |-> p] :
     e \in Emails \ {""}, p \in Passwords \ {""}}
  \cup {[kind |-> "register", name |-> "", email |-> "ann@x.io", password |-> "secret1"],
        [kind |-> "register", name |-> "Ann", email |-> "", password |-> "secret1"],
        [kind |-> "register", name |-> "Ann", email |-> "ann@x.io", password |-> ""]}

LoginBodies ==
  {[kind |-> "login", email |-> e, password |-> p] :
     e \in Emails \ {""}, p \in Passwords \ {""}}
  \cup {[kind |-> "login", email |-> "", password |-> "secret1"],
        [kind |-> "login", email |-> "ann@x.io", password |-> ""]}

\* Todo bodies: a title may be absent, a number, or a string that is empty,
\* blank, plain or padded; completed may be absent, a boolean or a string
BodyTitles == {Undefined, JsNumber(7)} \cup {JsString(t) : t \in TitleStrings}
BodyCompleted == {Undefined, JsBoolean(TRUE), JsBoolean(FALSE), JsString(<<"a">>)}

\* Ids in a URL: every ObjectId the store may hold, one it never holds, and a
\* string that is no ObjectId
UrlIds == {ObjectId(n) : n \in 1..(MaxCreates + 1)} \cup {OtherId(0)}

\* The HTTP client takes the response
ApiReceive(s) ==
  /\ reqs[s].pc = "done"
  /\ reqs[s].src = "api"
  /\ reqs' = [reqs EXCEPT ![s] = Idle]
  /\ UNCHANGED <<clkVars, srvVars, appVars>>

ApiRegister(s) ==
  /\ reqs[s] = Idle
  /\ \E req \in RegisterBodies : RegisterStart(s, "api", req)
  /\ UNCHANGED <<clkVars, appVars>>

ApiLogin(s) ==
  /\ reqs[s] = Idle
  /\ \E req \in LoginBodies : LoginStart(s, "api", req)
  /\ UNCHANGED <<clkVars, srvVars, appVars>>

ApiList(s, auths) ==
  /\ reqs[s] = Idle
  /\ \E auth \in auths : ListStart(s, "api", [kind |-> "list", auth |-> auth])
  /\ UNCHANGED <<clkVars, srvVars, appVars>>

ApiCreate(s, auths, titles) ==
  /\ reqs[s] = Idle
  /\ \E auth \in auths, title \in titles :
       CreateStart(s, "api", [kind |-> "create", auth |-> auth, title |-> title])
  /\ UNCHANGED <<clkVars, appVars>>

ApiUpdate(s, auths, titles, flags) ==
  /\ reqs[s] = Idle
  /\ \E auth \in auths, id \in UrlIds, title \in titles, completed \in flags :
       UpdateStart(s, "api", [kind |-> "update", auth |-> auth, id |-> id,
                              title |-> title, completed |-> completed])
  /\ UNCHANGED <<clkVars, useInMemoryDb, mongoConnect, User, Todo, nextUid, nextOid, appVars>>

ApiDelete(s, auths) ==
  /\ reqs[s] = Idle
  /\ \E auth \in auths, id \in UrlIds :
       DeleteStart(s, "api", [kind |-> "delete", auth |-> auth, id |-> id])
  /\ UNCHANGED <<clkVars, useInMemoryDb, mongoConnect, User, Todo, nextUid, nextOid, appVars>>

----------------------------------------------------------------------------
(* The client: AuthProvider *)

Unmounted == [mounted |-> FALSE]
NothingSent == [kind |-> "none"]

\* jwtDecode(token): the payload of a well-formed token, whoever signed it
CanDecode(tok) == tok.kind = "jwt"

\* axios sends the request with the default headers as they are at the call
Send(s, req) ==
  /\ reqs[s] = Idle
  /\ reqs' = [reqs EXCEPT ![s] = [pc |-> "sent", src |-> "app", req |-> req]]

\* Faulty variant: a rejected token stays in localStorage
AuthEffectMut(tok) ==
  /\ IF tok # NoToken
       THEN IF CanDecode(tok) /\ ~(tok.exp < now)
              THEN /\ axiosAuth' = tok
                   /\ user' = [id |-> tok.userId, name |-> "User", email |-> ""]
                   /\ isAuthenticated' = TRUE
                   /\ UNCHANGED <<localStorage, token>>
              ELSE /\ token' = NoToken
                   /\ user' = Null
                   /\ isAuthenticated' = FALSE
                   /\ UNCHANGED <<localStorage, axiosAuth>>
       ELSE UNCHANGED <<localStorage, axiosAuth, token, user, isAuthenticated>>
  /\ loading' = FALSE

\* The effect on [token]: loadUser. It awaits nothing, so it runs to its end.
AuthEffect(tok) ==
  /\ IF tok # NoToken
       THEN IF CanDecode(tok) /\ ~(tok.exp < now)
              THEN /\ axiosAuth' = tok
                   /\ user' = [id |-> tok.userId, name |-> "User", email |-> ""]
                   /\ isAuthenticated' = TRUE
                   /\ UNCHANGED <<localStorage, token>>
              ELSE \* expired, or jwtDecode threw
                   /\ localStorage' = NoToken
                   /\ token' = NoToken
                   /\ user' = Null
                   /\ isAuthenticated' = FALSE
                   /\ UNCHANGED axiosAuth
       ELSE UNCHANGED <<localStorage, axiosAuth, token, user, isAuthenticated>>
  /\ loading' = FALSE

(* The client: TodoProvider *)

\* The effect on [isAuthenticated, token]: fetchTodos, up to its await
TodoEffect(S, auth, tok) ==
  IF ~auth
    THEN /\ todos' = <<>>
         /\ todoLoading' = FALSE
         /\ UNCHANGED <<reqs, sent>>
    ELSE /\ todoLoading' = TRUE
         /\ \E s \in S : Send(s, [kind |-> "list", auth |-> axiosAuth])
         /\ sent' = [kind |-> "list", auth |-> axiosAuth, token |-> tok]
         /\ UNCHANGED todos

\* Faulty variant: the auth effect has no dependency array and runs at every flush
RunEffectsMut(S) ==
  LET tok == token
      auth == isAuthenticated
      runTodo == todoDeps # [isAuthenticated |-> auth, token |-> tok]
  IN /\ IF runTodo THEN TodoEffect(S, auth, tok) ELSE UNCHANGED <<todos, todoLoading, reqs, sent>>
     /\ AuthEffect(tok)
     /\ authDeps' = [token |-> tok]
     /\ todoDeps' = [isAuthenticated |-> auth, token |-> tok]
     /\ UNCHANGED <<clkVars, srvVars, error, todoError>>

\* One commit of the tree and the flush of its effects. The state updates of an
\* event or a continuation are batched into one render; the effects whose
\* dependencies changed then run in one flush, the child's (TodoProvider)
\* before the parent's (AuthProvider), each with the values of that render.
RunEffects(S) ==
  LET tok == token
      auth == isAuthenticated
      runTodo == todoDeps # [isAuthenticated |-> auth, token |-> tok]
      runAuth == authDeps # [token |-> tok]
  IN /\ runTodo \/ runAuth
     /\ IF runTodo THEN TodoEffect(S, auth, tok) ELSE UNCHANGED <<todos, todoLoading, reqs, sent>>
     /\ IF runAuth THEN AuthEffect(tok)
                   ELSE UNCHANGED <<localStorage, axiosAuth, token, user, isAuthenticated, loading>>
     /\ authDeps' = [token |-> tok]
     /\ todoDeps' = [isAuthenticated |-> auth, token |-> tok]
     /\ UNCHANGED <<clkVars, srvVars, error, todoError>>

\* React flushes the effects of a commit before it handles the next event or
\* continuation of the page, and within the same instant
EffectsPending ==
  \/ todoDeps # [isAuthenticated |-> isAuthenticated, token |-> token]
  \/ authDeps # [token |-> token]

\* Almost a day passes at once (once in a run), while the page is at rest
Advance ==
  /\ ~EffectsPending
  /\ now <= StartTime + MaxTicks
  /\ now' = now + (Day - 1)
  /\ UNCHANGED <<ticks, srvVars, netVars, appVars>>

\* What the forms let through: Login.validateForm and Register.validateForm
LoginForms ==
  {[kind |-> "login", email |-> e, password |-> p] : e \in Emails \ {""}, p \in Passwords \ {""}}
RegisterForms ==
  {[kind |-> "register", name |-> "Ann", email |-> "ann@x.io", password |-> "secret1"]}

\* The response of a request that got none (the server was not reached)
NoResponse == [status |-> 0]

\* axios rejects a response whose status is not 2xx, and a request without response
Rejected(res) == res.status < 200 \/ res.status > 299

\* Faulty variant: the message of the server is ignored
ErrorTextMut(res, fallback) == fallback

\* err.response?.data?.message || fallback
ErrorText(res, fallback) ==
  IF "message" \in DOMAIN res /\ res.message # "" THEN res.message ELSE fallback

\* The request does not reach the server, or its response does not reach the page
Drop(s) ==
  /\ reqs[s].pc = "sent"
  /\ reqs[s].src = "app"
  /\ Respond(s, "app", reqs[s].req, "network", NoResponse)
  /\ UNCHANGED <<clkVars, srvVars, appVars>>

\* login(email, password), up to its await; the form's button is disabled while loading
Login(s, form) ==
  /\ ~EffectsPending
  /\ ~loading
  /\ loading' = TRUE
  /\ Send(s, form)
  /\ sent' = [kind |-> "login", auth |-> axiosAuth, token |-> token]
  /\ UNCHANGED <<clkVars, srvVars, localStorage, axiosAuth, token, user, isAuthenticated,
                 error, authDeps, todoVars>>

\* Faulty variant: a successful login does not write the token to storage
LoginDoneMut(s) ==
  /\ ~EffectsPending
  /\ reqs[s].pc = "done"
  /\ reqs[s].src = "app"
  /\ reqs[s].req.kind = "login"
  /\ LET res == reqs[s].resp
     IN IF ~Rejected(res)
          THEN /\ token' = res.token
               /\ user' = res.user
               /\ isAuthenticated' = TRUE
               /\ error' = Null
               /\ UNCHANGED localStorage
          ELSE /\ error' = [message |-> ErrorText(res, "Login failed. Please try again.")]
               /\ UNCHANGED <<localStorage, token, user, isAuthenticated>>
  /\ loading' = FALSE
  /\ reqs' = [reqs EXCEPT ![s] = Idle]
  /\ UNCHANGED <<clkVars, srvVars, axiosAuth, authDeps, todoVars, sent>>

\* login after its await: the response, or the error axios throws for it
LoginDone(s) ==
  /\ ~EffectsPending
  /\ reqs[s].pc = "done"
  /\ reqs[s].src = "app"
  /\ reqs[s].req.kind = "login"
  /\ LET res == reqs[s].resp
     IN IF ~Rejected(res)
          THEN /\ localStorage' = res.token
               /\ token' = res.token
               /\ user' = res.user
               /\ isAuthenticated' = TRUE
               /\ error' = Null
          ELSE /\ error' = [message |-> ErrorText(res, "Login failed. Please try again.")]
               /\ UNCHANGED <<localStorage, token, user, isAuthenticated>>
  /\ loading' = FALSE
  /\ reqs' = [reqs EXCEPT ![s] = Idle]
  /\ UNCHANGED <<clkVars, srvVars, axiosAuth, authDeps, todoVars, sent>>

\* register(name, email, password), up to its await
Register(s, form) ==
  /\ ~EffectsPending
  /\ ~loading
  /\ loading' = TRUE
  /\ Send(s, form)
  /\ sent' = [kind |-> "register", auth |-> axiosAuth, token |-> token]
  /\ UNCHANGED <<clkVars, srvVars, localStorage, axiosAuth, token, user, isAuthenticated,
                 error, authDeps, todoVars>>

\* Faulty variant: a successful registration signs the user in
RegisterDoneMut(s) ==
  /\ ~EffectsPending
  /\ reqs[s].pc = "done"
  /\ reqs[s].src = "app"
  /\ reqs[s].req.kind = "register"
  /\ LET res == reqs[s].resp
     IN /\ error' = IF ~Rejected(res) THEN Null
                    ELSE [message |-> ErrorText(res, "Registration failed. Please try again.")]
        /\ isAuthenticated' = IF ~Rejected(res) THEN TRUE ELSE isAuthenticated
  /\ loading' = FALSE
  /\ reqs' = [reqs EXCEPT ![s] = Idle]
  /\ UNCHANGED <<clkVars, srvVars, localStorage, axiosAuth, token, user,
                 authDeps, todoVars, sent>>

\* register after its await
RegisterDone(s) ==
  /\ ~EffectsPending
  /\ reqs[s].pc = "done"
  /\ reqs[s].src = "app"
  /\ reqs[s].req.kind = "register"
  /\ LET res == reqs[s].resp
     IN error' = IF ~Rejected(res) THEN Null
                 ELSE [message |-> ErrorText(res, "Registration failed. Please try again.")]
  /\ loading' = FALSE
  /\ reqs' = [reqs EXCEPT ![s] = Idle]
  /\ UNCHANGED <<clkVars, srvVars, localStorage, axiosAuth, token, user, isAuthenticated,
                 authDeps, todoVars, sent>>

\* Faulty variant: the default Authorization header is left in place
LogoutMut ==
  /\ ~EffectsPending
  /\ localStorage' = NoToken
  /\ token' = NoToken
  /\ user' = Null
  /\ isAuthenticated' = FALSE
  /\ UNCHANGED <<clkVars, srvVars, netVars, axiosAuth, loading, error, authDeps, todoVars, sent>>

\* logout()
Logout ==
  /\ ~EffectsPending
  /\ localStorage' = NoToken
  /\ token' = NoToken
  /\ user' = Null
  /\ isAuthenticated' = FALSE
  /\ axiosAuth' = NoToken
  /\ UNCHANGED <<clkVars, srvVars, netVars, loading, error, authDeps, todoVars, sent>>

\* The page is loaded again: both providers start from their initial state, the
\* axios defaults are those of the new page, and nobody waits for the responses
\* to the requests of the old page
Reload ==
  /\ ~EffectsPending
  /\ token' = localStorage
  /\ axiosAuth' = NoToken
  /\ user' = Null
  /\ isAuthenticated' = FALSE
  /\ loading' = TRUE
  /\ error' = Null
  /\ authDeps' = Unmounted
  /\ todos' = <<>>
  /\ todoLoading' = TRUE
  /\ todoError' = Null
  /\ todoDeps' = Unmounted
  /\ sent' = NothingSent
  /\ reqs' = [s \in Slots |-> IF reqs[s].pc # "idle" /\ reqs[s].src = "app"
                                THEN [reqs[s] EXCEPT !.src = "api"] ELSE reqs[s]]
  /\ UNCHANGED <<clkVars, srvVars, localStorage>>

\* fetchTodos after its await
FetchDone(s) ==
  /\ ~EffectsPending
  /\ reqs[s].pc = "done"
  /\ reqs[s].src = "app"
  /\ reqs[s].req.kind = "list"
  /\ LET res == reqs[s].resp
     IN IF ~Rejected(res)
          THEN todos' = res.todos /\ todoError' = Null
          ELSE /\ todoError' = [message |-> ErrorText(res, "Failed to fetch todos")]
               /\ UNCHANGED todos
  /\ todoLoading' = FALSE
  /\ reqs' = [reqs EXCEPT ![s] = Idle]
  /\ UNCHANGED <<clkVars, srvVars, authVars, todoDeps, sent>>

\* ProtectedRoute (components/routing/ProtectedRoute): the page with the todo
\* list is shown to an authenticated user only
HomeShown == isAuthenticated

\* addTodo(title), up to its await; TodoList sends a trimmed, non-empty title
AddTodo(s, title) ==
  /\ ~EffectsPending
  /\ HomeShown
  /\ todoLoading' = TRUE
  /\ Send(s, [kind |-> "create", auth |-> axiosAuth, title |-> JsString(title)])
  /\ sent' = [kind |-> "create", auth |-> axiosAuth, token |-> token]
  /\ UNCHANGED <<clkVars, srvVars, authVars, todos, todoError, todoDeps>>

AddTodoDone(s) ==
  /\ ~EffectsPending
  /\ reqs[s].pc = "done"
  /\ reqs[s].src = "app"
  /\ reqs[s].req.kind = "create"
  /\ LET res == reqs[s].resp
     IN IF ~Rejected(res)
          THEN todos' = <<res.todo>> \o todos /\ todoError' = Null
          ELSE /\ todoError' = [message |-> ErrorText(res, "Failed to add todo")]
               /\ UNCHANGED todos
  /\ todoLoading' = FALSE
  /\ reqs' = [reqs EXCEPT ![s] = Idle]
  /\ UNCHANGED <<clkVars, srvVars, authVars, todoDeps, sent>>

\* updateTodo(id, updates), up to its await; TodoItem toggles completed
UpdateTodo(s, i) ==
  /\ ~EffectsPending
  /\ HomeShown
  /\ i \in 1..Len(todos)
  /\ todoLoading' = TRUE
  /\ Send(s, [kind |-> "update", auth |-> axiosAuth, id |-> todos[i]._id,
              title |-> Undefined, completed |-> JsBoolean(~todos[i].completed)])
  /\ sent' = [kind |-> "update", auth |-> axiosAuth, token |-> token]
  /\ UNCHANGED <<clkVars, srvVars, authVars, todos, todoError, todoDeps>>

UpdateTodoDone(s) ==
  /\ ~EffectsPending
  /\ reqs[s].pc = "done"
  /\ reqs[s].src = "app"
  /\ reqs[s].req.kind = "update"
  /\ LET res == reqs[s].resp
         id == reqs[s].req.id
     IN IF ~Rejected(res)
          THEN /\ todos' = [i \in 1..Len(todos) |->
                              IF todos[i]._id = id THEN res.todo ELSE todos[i]]
               /\ todoError' = Null
          ELSE /\ todoError' = [message |-> ErrorText(res, "Failed to update todo")]
               /\ UNCHANGED todos
  /\ todoLoading' = FALSE
  /\ reqs' = [reqs EXCEPT ![s] = Idle]
  /\ UNCHANGED <<clkVars, srvVars, authVars, todoDeps, sent>>

\* deleteTodo(id), up to its await
DeleteTodo(s, i) ==
  /\ ~EffectsPending
  /\ HomeShown
  /\ i \in 1..Len(todos)
  /\ todoLoading' = TRUE
  /\ Send(s, [kind |-> "delete", auth |-> axiosAuth, id |-> todos[i]._id])
  /\ sent' = [kind |-> "delete", auth |-> axiosAuth, token |-> token]
  /\ UNCHANGED <<clkVars, srvVars, authVars, todos, todoError, todoDeps>>

DeleteTodoDone(s) ==
  /\ ~EffectsPending
  /\ reqs[s].pc = "done"
  /\ reqs[s].src = "app"
  /\ reqs[s].req.kind = "delete"
  /\ LET res == reqs[s].resp
         id == reqs[s].req.id
     IN IF ~Rejected(res)
          THEN todos' = WithoutId(todos, id) /\ todoError' = Null
          ELSE /\ todoError' = [message |-> ErrorText(res, "Failed to delete todo")]
               /\ UNCHANGED todos
  /\ todoLoading' = FALSE
  /\ reqs' = [reqs EXCEPT ![s] = Idle]
  /\ UNCHANGED <<clkVars, srvVars, authVars, todoDeps, sent>>

----------------------------------------------------------------------------
(* The server takes up a request of the client application *)

Arrived(s, kind) == reqs[s].pc = "sent" /\ reqs[s].req.kind = kind

AppRegister(s) ==
  /\ Arrived(s, "register")
  /\ RegisterStart(s, reqs[s].src, reqs[s].req)
  /\ UNCHANGED <<clkVars, appVars>>

AppLogin(s) ==
  /\ Arrived(s, "login")
  /\ LoginStart(s, reqs[s].src, reqs[s].req)
  /\ UNCHANGED <<clkVars, srvVars, appVars>>

AppList(s) ==
  /\ Arrived(s, "list")
  /\ ListStart(s, reqs[s].src, reqs[s].req)
  /\ UNCHANGED <<clkVars, srvVars, appVars>>

AppCreate(s) ==
  /\ Arrived(s, "create")
  /\ CreateStart(s, reqs[s].src, reqs[s].req)
  /\ UNCHANGED <<clkVars, appVars>>

AppUpdate(s) ==
  /\ Arrived(s, "update")
  /\ UpdateStart(s, reqs[s].src, reqs[s].req)
  /\ UNCHANGED <<clkVars, useInMemoryDb, mongoConnect, User, Todo, nextUid, nextOid, appVars>>

AppDelete(s) ==
  /\ Arrived(s, "delete")
  /\ DeleteStart(s, reqs[s].src, reqs[s].req)
  /\ UNCHANGED <<clkVars, useInMemoryDb, mongoConnect, User, Todo, nextUid, nextOid, appVars>>

----------------------------------------------------------------------------
(* The initial state: the server as it starts, the page not yet mounted *)

\* The server with its connection to MongoDB established (the first attempt, or
\* the retry, has succeeded); SpecBoot starts before that
InitServer ==
  /\ now = StartTime
  /\ ticks = 0
  /\ useInMemoryDb = FALSE
  /\ mongoConnect = "connected"
  /\ inMemoryDb = [todos |-> <<>>, users |-> <<>>]
  /\ User = {}
  /\ Todo = {}
  /\ nextUid = 1
  /\ nextOid = 1
  /\ reqs = [s \in Slots |-> Idle]

\* useState initial values of AuthProvider and TodoProvider
InitApp(stored) ==
  /\ localStorage = stored
  /\ axiosAuth = NoToken
  /\ token = stored
  /\ user = Null
  /\ isAuthenticated = FALSE
  /\ loading = TRUE
  /\ error = Null
  /\ authDeps = Unmounted
  /\ todos = <<>>
  /\ todoLoading = TRUE
  /\ todoError = Null
  /\ todoDeps = Unmounted
  /\ sent = NothingSent

Init == InitServer /\ InitApp(NoToken)

\* The authentication routes under concurrent requests
NextAuth ==
  \/ \E s \in Slots : ApiRegister(s)
  \/ \E s \in Slots : RegisterSave(s)
  \/ \E s \in Slots : ApiLogin(s)
  \/ \E s \in Slots : LoginCompare(s)
  \/ \E s \in Slots : ApiReceive(s)
  \/ Tick

SpecAuth == Init /\ [][NextAuth]_vars

\* The todo routes, one request after the other, each with an acceptable token
NextTodos ==
  \/ \E s \in OneSlot : ApiList(s, {FreshToken})
  \/ \E s \in OneSlot : ApiCreate(s, {FreshToken}, BodyTitles)
  \/ \E s \in OneSlot : ApiUpdate(s, {FreshToken}, BodyTitles, BodyCompleted)
  \/ \E s \in OneSlot : UpdateSave(s)
  \/ \E s \in OneSlot : ApiDelete(s, {FreshToken})
  \/ \E s \in OneSlot : DeleteRemove(s)
  \/ \E s \in OneSlot : ApiReceive(s)
  \/ Tick

SpecTodos == Init /\ [][NextTodos]_vars

\* The todo routes under requests with every kind of Authorization header
NextGate ==
  \/ \E s \in OneSlot : ApiList(s, ApiAuths)
  \/ \E s \in OneSlot : ApiCreate(s, ApiAuths, {JsString(<<"a">>)})
  \/ \E s \in OneSlot : ApiUpdate(s, ApiAuths, {Undefined}, {JsBoolean(TRUE)})
  \/ \E s \in OneSlot : UpdateSave(s)
  \/ \E s \in OneSlot : ApiDelete(s, ApiAuths)
  \/ \E s \in OneSlot : DeleteRemove(s)
  \/ \E s \in OneSlot : ApiReceive(s)

SpecGate == Init /\ [][NextGate]_vars

\* The page and the server behind it: the session from page load to logout,
\* with the todo fetch that follows a change of the session
InitSession == InitServer /\ \E stored \in {NoToken, Garbage} : InitApp(stored)

NextSession ==
  \/ RunEffects(OneSlot)
  \/ \E s \in OneSlot, form \in LoginForms : Login(s, form)
  \/ \E s \in OneSlot : LoginDone(s)
  \/ \E s \in OneSlot, form \in RegisterForms : Register(s, form)
  \/ \E s \in OneSlot : RegisterDone(s)
  \/ Logout
  \/ Reload
  \/ \E s \in OneSlot : FetchDone(s)
  \/ \E s \in OneSlot : AppRegister(s)
  \/ \E s \in OneSlot : RegisterSave(s)
  \/ \E s \in OneSlot : AppLogin(s)
  \/ \E s \in OneSlot : LoginCompare(s)
  \/ \E s \in OneSlot : AppList(s)
  \/ \E s \in OneSlot : ApiReceive(s)
  \/ Tick
  \/ Advance

SpecSession == InitSession /\ [][NextSession]_vars

----------------------------------------------------------------------------
(* The claims *)

ProtectedKinds == {"list", "create", "update", "delete"}

Done(s) == reqs[s].pc = "done"

\* A request enters the server on slot s in this step
Enters(s, kind) ==
  /\ reqs[s].pc \in {"idle", "sent"}
  /\ reqs'[s].pc \notin {"idle", "sent"}
  /\ reqs'[s].req.kind = kind

\* validate(token) of the specification: the signature verifies against the
\* server's secret and the time is before the expiry
TokenAccepted(tok, t) == tok.kind = "jwt" /\ tok.sig = JWT_SECRET /\ t < tok.exp

\* C1: a request to a protected path that carries no token, or a token that is
\* malformed, wrongly signed or expired, is answered 401 (stated as the claim
\* states it; the routes are registered without any token check)
C1_UnauthenticatedIs401 ==
  \A s \in Slots :
    (Done(s) /\ reqs[s].req.kind \in ProtectedKinds /\ ~TokenAccepted(reqs[s].req.auth, now))
      => reqs[s].resp.status = 401

\* C2: every request the client sends to a protected path carries the token the
\* client holds at that moment as its Authorization header
C2_BearerOnEveryRequest ==
  sent.kind \in ProtectedKinds => (sent.token # NoToken /\ sent.auth = sent.token)

\* C3: a registration with all fields present, for an email that already has a
\* user record, is answered 400 'User with this email already exists', creates
\* no user record and leaves the existing records as they are
EmailTaken(email) == \E u \in User : u.email = email

C3_SecondRegisterConflicts ==
  [][\A s \in Slots :
       (/\ Enters(s, "register")
        /\ reqs'[s].req.name # "" /\ reqs'[s].req.password # ""
        /\ reqs'[s].req.email # "" /\ EmailTaken(reqs'[s].req.email))
         => /\ reqs'[s].pc = "done"
            /\ reqs'[s].resp = [status |-> 400, message |-> "User with this email already exists"]
            /\ User' = User]_vars

C3_Witness ==
  \E s \in Slots : Done(s) /\ reqs[s].at = "register:exists" /\ EmailTaken(reqs[s].req.email)

\* C4: no two user records share an email, also when two registrations for one
\* email both pass the existence check before either saves; and a registration
\* is answered 201 only in a step that creates the first record for its email
C4_UniqueEmails ==
  /\ [](\A u, w \in User : u.email = w.email => u = w)
  /\ [][\A s \in Slots :
          (~Done(s) /\ Done(s)' /\ reqs'[s].req.kind = "register" /\ reqs'[s].resp.status = 201)
            => /\ ~EmailTaken(reqs'[s].req.email)
               /\ Cardinality({u \in User' : u.email = reqs'[s].req.email}) = 1]_vars

\* the race was run: a registration passed the existence check and lost at save
C4_Witness ==
  \E s \in Slots : Done(s) /\ reqs[s].at = "register:error" /\ EmailTaken(reqs[s].req.email)

\* C5: a login with non-empty email and password that fails, fails with status
\* 401 and message 'Invalid credentials', whether the email is unknown or the
\* password is wrong
C5_SameRefusal ==
  \A s \in Slots :
    (/\ Done(s) /\ reqs[s].req.kind = "login"
     /\ reqs[s].req.email # "" /\ reqs[s].req.password # ""
     /\ reqs[s].resp.status # 200)
      => reqs[s].resp = [status |-> 401, message |-> "Invalid credentials"]

\* both causes are there at once: one login refused for its unknown email,
\* another for its wrong password
C5_Witness ==
  \E s, r \in Slots :
    /\ Done(s) /\ reqs[s].at = "login:no-user" /\ ~EmailTaken(reqs[s].req.email)
    /\ Done(r) /\ reqs[r].at = "login:bad-password" /\ EmailTaken(reqs[r].req.email)

\* The auth effect runs in this step, on the token of the render it belongs to
AuthEffectRuns == authDeps' # authDeps /\ authDeps' # Unmounted

\* The first flush of effects after the page is loaded
MountStep == authDeps = Unmounted /\ authDeps' # Unmounted

\* C6: a token of login at time T expires at T + 24 hours, and the session
\* check accepts it at every time before the expiry and at no time from the
\* expiry instant on (stated as the claim states it; the check compares with <)
C6_InvalidFromExpiry ==
  [][(AuthEffectRuns /\ token.kind = "jwt" /\ token.sig = JWT_SECRET)
       => /\ token.exp = token.iat + Day
          /\ isAuthenticated' <=> (now < token.iat + Day)]_vars

\* C7: the first flush after a load decides on the stored token without a
\* request and ends with loading false. A token that cannot be decoded, or whose
\* expiry lies before the clock, is removed from storage and from memory, with
\* no user and unauthenticated; a token whose expiry lies after the clock is kept
\* and gives the user view of its claims, authenticated. (The instant at which
\* the clock equals the expiry is the subject of C6.)
UserOfClaims(tok) == [id |-> tok.userId, name |-> "User", email |-> ""]

C7_InitDecidesLocally ==
  [][MountStep =>
       /\ reqs' = reqs
       /\ loading' = FALSE
       /\ token = NoToken
            => (token' = NoToken /\ user' = Null /\ ~isAuthenticated'
                /\ localStorage' = localStorage)
       /\ (token # NoToken /\ (token.kind # "jwt" \/ token.exp < now))
            => (localStorage' = NoToken /\ token' = NoToken /\ user' = Null
                /\ ~isAuthenticated')
       /\ (token.kind = "jwt" /\ now < token.exp)
            => (localStorage' = localStorage /\ token' = token
                /\ user' = UserOfClaims(token) /\ isAuthenticated')]_vars

\* a page was loaded with an expired token in storage, and its first flush has
\* run: the token is gone everywhere
C7_Witness ==
  /\ authDeps # Unmounted
  /\ todoDeps = [isAuthenticated |-> FALSE, token |-> authDeps.token]
  /\ authDeps.token.kind = "jwt" /\ authDeps.token.exp < now
  /\ localStorage = NoToken /\ token = NoToken /\ user = Null
  /\ ~isAuthenticated /\ ~loading

\* C8: logout, from any state, leaves no token in storage or in memory, no
\* user, isAuthenticated false and no default Authorization header; it sends no
\* request, and nothing on the server changes (no revocation)
C8_LogoutIsLocal ==
  [][Logout =>
       /\ localStorage' = NoToken /\ token' = NoToken /\ user' = Null
       /\ ~isAuthenticated' /\ axiosAuth' = NoToken
       /\ reqs' = reqs /\ sent' = sent
       /\ UNCHANGED srvVars]_vars

\* logout has run in an authenticated session: the auth effect had accepted a
\* token that is still unexpired, and nothing of it is left on the client
C8_Witness ==
  /\ authDeps # Unmounted /\ authDeps.token.kind = "jwt" /\ now < authDeps.token.exp
  /\ localStorage = NoToken /\ token = NoToken /\ user = Null
  /\ ~isAuthenticated /\ axiosAuth = NoToken
  /\ \E u \in User : u._id = authDeps.token.userId

\* The string without its leading and trailing white space
Stripped(t) ==
  LET black == {i \in 1..Len(t) : t[i] \notin WhiteSpace}
  IN IF black = {} THEN <<>>
     ELSE SubSeq(t, CHOOSE i \in black : \A j \in black : i <= j,
                    CHOOSE i \in black : \A j \in black : i >= j)

\* C9: create with a string title that is empty after trimming is answered 400
\* and stores nothing; create with any other string title stores one todo, with
\* the trimmed title and completed false; every stored todo has a non-empty
\* title without leading or trailing white space
C9_CreateTrims ==
  /\ [](\A d \in Todo : d.title # <<>> /\ Stripped(d.title) = d.title)
  /\ [][\A s \in Slots :
          (Enters(s, "create") /\ reqs'[s].req.title.t = "string")
            => /\ reqs'[s].pc = "done"
               /\ IF Stripped(reqs'[s].req.title.v) = <<>>
                    THEN reqs'[s].resp.status = 400 /\ Todo' = Todo
                    ELSE /\ reqs'[s].resp.status = 201
                         /\ \E d \in Todo' \ Todo :
                              /\ Todo' = Todo \cup {d}
                              /\ d.title = Stripped(reqs'[s].req.title.v)
                              /\ d.completed = FALSE]_vars

\* a padded title was stored trimmed, and a blank one has just been refused
C9_Witness ==
  /\ \E d \in Todo : d.title = <<"b">>
  /\ \E s \in Slots : /\ Done(s) /\ reqs[s].req.kind = "create"
                      /\ reqs[s].req.title = JsString(<<" ">>)
                      /\ reqs[s].resp.status = 400

InStore(id) == \E d \in Todo : d._id = id

\* C10 as stated: update with an id that no stored todo has is answered 404 and
\* changes no stored todo, whatever the format of the id
C10_AbsentIdIs404 ==
  [][\A s \in Slots :
       (Enters(s, "update") /\ ~InStore(reqs'[s].req.id))
         => /\ reqs'[s].pc = "done"
            /\ reqs'[s].resp.status = 404
            /\ Todo' = Todo]_vars

\* C10, amended: update with an id that no stored todo has changes no stored
\* todo; it is answered 404 'Todo not found' when the id is a well-formed
\* ObjectId, and 400 'Invalid todo ID' when it is not
C10_AbsentIdIs404Or400 ==
  [][\A s \in Slots :
       (Enters(s, "update") /\ ~InStore(reqs'[s].req.id))
         => /\ reqs'[s].pc = "done"
            /\ Todo' = Todo
            /\ reqs'[s].resp =
                 IF reqs'[s].req.id.hex
                   THEN [status |-> 404, message |-> "Todo not found"]
                   ELSE [status |-> 400, message |-> "Invalid todo ID"]]_vars

\* with a todo in the store, an update for an ObjectId that is not there was
\* answered 404
C10_Witness ==
  /\ Todo # {}
  /\ \E s \in Slots : /\ Done(s) /\ reqs[s].req.kind = "update"
                      /\ reqs[s].req.id.hex /\ ~InStore(reqs[s].req.id)
                      /\ reqs[s].at = "update:missing"


\* The stored todo with the id (ids are unique in the collection)
StoredAs(S, id) == CHOOSE d \in S : d._id = id

\* The save of an update succeeds in this step on slot s
UpdateSucceeds(s) ==
  /\ reqs[s].pc = "update:save"
  /\ reqs'[s].pc = "done"
  /\ reqs'[s].resp.status = 200

\* C11: a successful update changes the title only if the body has one and the
\* completed flag only if the body has one, never the id or created-at, no
\* other todo, and sets updated-at to the time of the update
C11_UpdateFrame ==
  [][\A s \in Slots :
       UpdateSucceeds(s) =>
         LET req == reqs'[s].req
             old == StoredAs(Todo, req.id)
             new == StoredAs(Todo', req.id)
         IN /\ \E d \in Todo : d._id = req.id
            /\ Cardinality({d \in Todo' : d._id = req.id}) = 1
            /\ Todo' \ {new} = Todo \ {old}
            /\ new.createdAt = old.createdAt
            /\ new.title = IF req.title = Undefined THEN old.title ELSE Stripped(req.title.v)
            /\ new.completed = IF req.completed = Undefined THEN old.completed ELSE req.completed.v
            /\ new.updatedAt = now
            /\ reqs'[s].resp.todo = new]_vars

\* an update with a flag and no title has succeeded at a later time than the
\* todo was created, with another todo in the store
C11_Witness ==
  \E s \in Slots :
    /\ Done(s) /\ reqs[s].at = "update:ok"
    /\ reqs[s].req.title = Undefined /\ reqs[s].req.completed = JsBoolean(TRUE)
    /\ \E d, e \in Todo : /\ d._id = reqs[s].req.id /\ e._id # d._id
                          /\ d.completed /\ d.title = <<"b">>
                          /\ d.updatedAt > d.createdAt


----------------------------------------------------------------------------
(* A caller that passes on what it was given: create, then update of the   *)
(* returned id, then list. The request carries along what create returned. *)

TripUpdate(s) ==
  /\ reqs[s].pc = "done" /\ reqs[s].src = "api"
  /\ reqs[s].req.kind = "create" /\ reqs[s].resp.status = 201
  /\ UpdateStart(s, "api", [kind |-> "update", auth |-> reqs[s].req.auth,
                            id |-> reqs[s].resp.todo._id,
                            title |-> Undefined, completed |-> JsBoolean(TRUE),
                            created |-> reqs[s].resp.todo])
  /\ UNCHANGED <<clkVars, useInMemoryDb, mongoConnect, User, Todo, nextUid, nextOid, appVars>>

TripList(s) ==
  /\ reqs[s].pc = "done" /\ reqs[s].src = "api"
  /\ reqs[s].req.kind = "update" /\ "created" \in DOMAIN reqs[s].req
  /\ reqs[s].resp.status = 200
  /\ ListStart(s, "api", [kind |-> "list", auth |-> reqs[s].req.auth,
                          created |-> reqs[s].req.created])
  /\ UNCHANGED <<clkVars, srvVars, appVars>>

\* The todo routes, one request after the other, with such a caller among the callers
NextTrip ==
  \/ \E s \in OneSlot : ApiList(s, {FreshToken})
  \/ \E s \in OneSlot : ApiCreate(s, {FreshToken}, BodyTitles)
  \/ \E s \in OneSlot : ApiUpdate(s, {FreshToken}, {Undefined, JsString(<<"a">>)}, BodyCompleted)
  \/ \E s \in OneSlot : TripUpdate(s)
  \/ \E s \in OneSlot : UpdateSave(s)
  \/ \E s \in OneSlot : TripList(s)
  \/ \E s \in OneSlot : ApiDelete(s, {FreshToken})
  \/ \E s \in OneSlot : DeleteRemove(s)
  \/ \E s \in OneSlot : ApiReceive(s)
  \/ Tick

SpecTrip == Init /\ [][NextTrip]_vars

\* C12: after create(title), update(id, {completed: true}) with the returned
\* id, and list(), the list has exactly one entry with that id; the entry is
\* completed, has the title create stored, and its updated-at is not earlier
\* than its created-at
C12_RoundTrip ==
  \A s \in Slots :
    (Done(s) /\ reqs[s].req.kind = "list" /\ "created" \in DOMAIN reqs[s].req)
      => LET c == reqs[s].req.created
             q == reqs[s].resp.todos
             hits == {i \in 1..Len(q) : q[i]._id = c._id}
         IN /\ Cardinality(hits) = 1
            /\ \A i \in hits : /\ q[i].completed = TRUE
                               /\ q[i].title = c.title
                               /\ q[i].updatedAt >= q[i].createdAt

\* the three calls were made for a padded title, next to an older todo, and
\* time passed between create and update
C12_Witness ==
  \E s \in Slots :
    /\ Done(s) /\ reqs[s].req.kind = "list" /\ "created" \in DOMAIN reqs[s].req
    /\ reqs[s].req.created.title = <<"b">>
    /\ Len(reqs[s].resp.todos) = 2
    /\ \E i \in 1..2 : /\ reqs[s].resp.todos[i]._id = reqs[s].req.created._id
                       /\ reqs[s].resp.todos[i].updatedAt > reqs[s].resp.todos[i].createdAt


----------------------------------------------------------------------------

\* An ObjectId that was given to a todo and is in the store no more
Deleted(id) == id.hex /\ id.n < nextOid /\ ~InStore(id)

\* C13: a delete of a stored id goes on to the removal, which removes exactly
\* that todo and is answered 200 'Todo deleted successfully'; a delete of an id
\* deleted before is answered 404 and changes nothing; a deleted id never comes
\* back into the store, and a list holds stored todos only
C13_DeleteTwice ==
  [][/\ \A s \in Slots :
          /\ (Enters(s, "delete") /\ InStore(reqs'[s].req.id))
               => (reqs'[s].pc = "delete:remove" /\ Todo' = Todo)
          /\ (reqs[s].pc = "delete:remove" /\ reqs'[s].pc = "done")
               => /\ reqs'[s].resp = [status |-> 200, message |-> "Todo deleted successfully"]
                  /\ InStore(reqs'[s].req.id)
                  /\ Todo' = {d \in Todo : d._id # reqs'[s].req.id}
                  /\ Cardinality(Todo') = Cardinality(Todo) - 1
          /\ (Enters(s, "delete") /\ Deleted(reqs'[s].req.id))
               => /\ reqs'[s].pc = "done"
                  /\ reqs'[s].resp = [status |-> 404, message |-> "Todo not found"]
                  /\ Todo' = Todo
          /\ Enters(s, "list")
               => \A i \in 1..Len(reqs'[s].resp.todos) :
                    ~Deleted(reqs'[s].resp.todos[i]._id)
     /\ \A d \in Todo' : ~Deleted(d._id)]_vars

\* the second delete of an id has been answered 404, with another todo still stored
C13_Witness ==
  \E s \in Slots :
    /\ Done(s) /\ reqs[s].req.kind = "delete" /\ Deleted(reqs[s].req.id)
    /\ reqs[s].resp.status = 404
    /\ Todo # {}


\* C14: a list holds every stored todo exactly once, in an order that is
\* descending in created-at; an update keeps every todo's created-at, and with
\* it the place that order gives the todo
C14_ListOrder ==
  [][\A s \in Slots :
       /\ Enters(s, "list")
            => LET q == reqs'[s].resp.todos
               IN /\ reqs'[s].pc = "done" /\ reqs'[s].resp.status = 200
                  /\ Len(q) = Cardinality(Todo)
                  /\ {q[i] : i \in 1..Len(q)} = Todo
                  /\ \A i, j \in 1..Len(q) : i < j => q[i].createdAt >= q[j].createdAt
       /\ UpdateSucceeds(s)
            => /\ Cardinality(Todo') = Cardinality(Todo)
               /\ \A d \in Todo : \E e \in Todo' : e._id = d._id /\ e.createdAt = d.createdAt]_vars

\* a list of two todos in which the older one was updated after the newer one
\* was created, and still comes second
C14_Witness ==
  \E s \in Slots :
    /\ Done(s) /\ reqs[s].req.kind = "list" /\ Len(reqs[s].resp.todos) = 2
    /\ reqs[s].resp.todos[1].createdAt > reqs[s].resp.todos[2].createdAt
    /\ reqs[s].resp.todos[2].updatedAt > reqs[s].resp.todos[1].updatedAt


----------------------------------------------------------------------------
(* The todo routes under two requests at a time *)

RaceTitles == {Undefined, JsString(<<" ", "b", " ">>), JsString(<<"c">>)}
RaceCompleted == {Undefined, JsBoolean(TRUE), JsBoolean(FALSE)}

\* An update of a todo that is in the store
RaceUpdate(s) ==
  /\ reqs[s] = Idle
  /\ \E d \in Todo, title \in RaceTitles, completed \in RaceCompleted :
       UpdateStart(s, "api", [kind |-> "update", auth |-> FreshToken, id |-> d._id,
                              title |-> title, completed |-> completed])
  /\ UNCHANGED <<clkVars, useInMemoryDb, mongoConnect, User, Todo, nextUid, nextOid, appVars>>

NextRace ==
  \/ \E s \in Slots : ApiCreate(s, {FreshToken}, {JsString(<<"a">>)})
  \/ \E s \in Slots : RaceUpdate(s)
  \/ \E s \in Slots : UpdateSave(s)
  \/ \E s \in Slots : ApiReceive(s)

SpecRace == Init /\ [][NextRace]_vars


\* What the request of slot s asks the field p to be, if it asks
Asks(req, p) == IF p = "title" THEN req.title # Undefined ELSE req.completed # Undefined
Asked(req, p) == IF p = "title" THEN Stripped(req.title.v) ELSE req.completed.v

\* C15: the save of an update is never refused because the stored todo has
\* changed since the handler read it: while the todo is stored the save is
\* answered 200, and every field the request changed with respect to the todo it
\* read ends with the request's value, whatever another save wrote in between
C15_LastSaveWins ==
  [][\A s \in Slots :
       (/\ reqs[s].pc = "update:save" /\ reqs'[s].pc = "done"
        /\ InStore(reqs[s].req.id)
        /\ reqs[s].local.doc.title # <<>>)
         => LET req == reqs[s].req
                read == reqs[s].local.loaded
                old == StoredAs(Todo, req.id)
                new == StoredAs(Todo', req.id)
            IN /\ reqs'[s].resp.status = 200
               /\ \A p \in {"title", "completed"} :
                    new[p] = IF Asks(req, p) /\ Asked(req, p) # read[p]
                               THEN Asked(req, p) ELSE old[p]]_vars

\* the lost update: two updates of one todo were both answered 200, one for
\* title b with completed true, one for title c; the second had read the todo
\* before the first saved (its answer still shows completed false), and its save
\* came last: the stored title is c, and the acknowledged title b is gone
C15_Witness ==
  \E s, r \in Slots :
    /\ s # r /\ Done(s) /\ Done(r)
    /\ reqs[s].at = "update:ok" /\ reqs[r].at = "update:ok"
    /\ reqs[s].req.id = reqs[r].req.id
    /\ reqs[s].resp.todo.title = <<"b">> /\ reqs[s].resp.todo.completed = TRUE
    /\ reqs[r].resp.todo.title = <<"c">> /\ reqs[r].resp.todo.completed = FALSE
    /\ \E d \in Todo : d._id = reqs[s].req.id /\ d.title = <<"c">> /\ d.completed = TRUE


----------------------------------------------------------------------------
(* The page with its todo list against the server, while another party     *)
(* deletes todos and requests may get no response                          *)

NextClient ==
  \/ RunEffects(OneSlot)
  \/ \E s \in OneSlot, form \in LoginForms : Login(s, form)
  \/ \E s \in OneSlot : LoginDone(s)
  \/ \E s \in OneSlot, form \in RegisterForms : Register(s, form)
  \/ \E s \in OneSlot : RegisterDone(s)
  \/ Logout
  \/ \E s \in OneSlot : FetchDone(s)
  \/ \E s \in OneSlot : AddTodo(s, <<"a">>)
  \/ \E s \in OneSlot : AddTodoDone(s)
  \/ \E s \in OneSlot, i \in 1..MaxCreates : UpdateTodo(s, i)
  \/ \E s \in OneSlot : UpdateTodoDone(s)
  \/ \E s \in OneSlot, i \in 1..MaxCreates : DeleteTodo(s, i)
  \/ \E s \in OneSlot : DeleteTodoDone(s)
  \/ \E s \in OneSlot : Drop(s)
  \/ \E s \in OneSlot : AppRegister(s)
  \/ \E s \in OneSlot : RegisterSave(s)
  \/ \E s \in OneSlot : AppLogin(s)
  \/ \E s \in OneSlot : LoginCompare(s)
  \/ \E s \in OneSlot : AppList(s)
  \/ \E s \in OneSlot : AppCreate(s)
  \/ \E s \in OneSlot : AppUpdate(s)
  \/ \E s \in OneSlot : UpdateSave(s)
  \/ \E s \in OneSlot : AppDelete(s)
  \/ \E s \in OneSlot : DeleteRemove(s)
  \/ \E s \in OneSlot : ApiDelete(s, {NoToken})
  \/ \E s \in OneSlot : ApiReceive(s)

SpecClient == Init /\ [][NextClient]_vars


\* The static text of each operation of the page
Fallback(kind) ==
  CASE kind = "login" -> "Login failed. Please try again."
    [] kind = "register" -> "Registration failed. Please try again."
    [] kind = "list" -> "Failed to fetch todos"
    [] kind = "create" -> "Failed to add todo"
    [] kind = "update" -> "Failed to update todo"
    [] kind = "delete" -> "Failed to delete todo"

\* The page takes the outcome of its request on slot s in this step, and the
\* outcome is a failure
TakesFailure(s) ==
  /\ reqs[s].pc = "done" /\ reqs[s].src = "app"
  /\ reqs[s].resp.status \notin 200..299
  /\ reqs'[s].pc = "idle"

\* C16: when a request of the page fails, the step that takes the failure
\* leaves the todo list, the stored token, the token, the user and
\* isAuthenticated as they are, sets the error of the operation's context to
\* the server's message if the response has one and to the operation's static
\* text otherwise, and ends with that context's loading flag false
C16_FailureKeepsState ==
  [][\A s \in Slots :
       TakesFailure(s) =>
         LET kind == reqs[s].req.kind
             res == reqs[s].resp
             text == IF "message" \in DOMAIN res THEN res.message ELSE Fallback(kind)
         IN /\ todos' = todos
            /\ UNCHANGED <<localStorage, token, user, isAuthenticated>>
            /\ IF kind \in {"login", "register"}
                 THEN error' = [message |-> text] /\ loading' = FALSE
                 ELSE todoError' = [message |-> text] /\ todoLoading' = FALSE]_vars

\* an update of the page was answered 404 with the server's message, and the
\* page shows that message next to its unchanged list
C16_Witness ==
  /\ todoError = [message |-> "Todo not found"]
  /\ ~todoLoading /\ isAuthenticated /\ todos # <<>>
  /\ \A s \in Slots : reqs[s].pc = "idle"

\* a request of the page got no response, and the page shows the static text
C16_WitnessFallback ==
  /\ todoError = [message |-> "Failed to add todo"]
  /\ ~todoLoading /\ isAuthenticated


\* The page takes the outcome of its request of the kind on slot s in this step
Takes(s, kind) ==
  /\ reqs[s].pc = "done" /\ reqs[s].src = "app" /\ reqs[s].req.kind = kind
  /\ reqs'[s].pc = "idle"

\* C17: the step that answers a registration with 201 adds the user record,
\* and the answer has no token; on
\* the page neither the call of register nor its outcome changes the stored
\* token, the token, the user or isAuthenticated; isAuthenticated becomes true
\* only by the outcome of a successful login or by the auth effect accepting a
\* token, and every token the page holds was issued by login
C17_RegisterGivesNoSession ==
  /\ [](\A s \in Slots :
          (Done(s) /\ reqs[s].req.kind = "register")
            => DOMAIN reqs[s].resp = {"status", "message"})
  /\ [](token.kind = "jwt" => (token.sig = JWT_SECRET /\ \E u \in User : u._id = token.userId))
  /\ [][/\ \A s \in Slots :
            /\ (~Done(s) /\ Done(s)' /\ reqs'[s].req.kind = "register" /\ reqs'[s].resp.status = 201)
                 => \E u \in User' \ User :
                      /\ User' = User \cup {u}
                      /\ u.name = reqs'[s].req.name /\ u.email = reqs'[s].req.email
            /\ (Takes(s, "register") \/ (reqs[s].pc = "idle" /\ reqs'[s].pc = "sent"
                                         /\ reqs'[s].req.kind = "register"))
                 => UNCHANGED <<localStorage, token, user, isAuthenticated>>
        /\ (~isAuthenticated /\ isAuthenticated')
             => \/ \E s \in Slots : Takes(s, "login") /\ reqs[s].resp.status = 200
                \/ AuthEffectRuns /\ token.kind = "jwt"]_vars

\* the page has registered a user with success and is not signed in
C17_Witness ==
  /\ sent.kind = "register" /\ error = Null /\ ~loading
  /\ \A s \in Slots : reqs[s].pc = "idle"
  /\ \E u \in User : u.email = "ann@x.io"
  /\ localStorage = NoToken /\ token = NoToken /\ user = Null /\ ~isAuthenticated


\* C18: the expiry check runs only on the first flush and when the token is
\* not the one of its last run; while the token is the one last checked, only
\* the outcome of a login, a logout or a reload changes isAuthenticated, the
\* user, the token or the stored token: no flush of effects and no passing of
\* time does, also past the token's expiry
C18_CheckOnlyOnTokenChange ==
  [][/\ AuthEffectRuns => (authDeps = Unmounted \/ authDeps.token # token)
     /\ (/\ authDeps = [token |-> token]
         /\ ~(\E s \in Slots : Takes(s, "login"))
         /\ ~Logout /\ ~Reload)
          => UNCHANGED <<isAuthenticated, user, token, localStorage>>]_vars

\* the token the page holds has expired since it was checked, and the page is
\* still authenticated with it
C18_Witness ==
  /\ token.kind = "jwt" /\ token.exp < now
  /\ authDeps = [token |-> token] /\ ~EffectsPending
  /\ isAuthenticated /\ user # Null /\ localStorage = token


----------------------------------------------------------------------------
(* The todo routes with the in-memory store in use: the branches written   *)
(* for useInMemoryDb = true, which the server as it stands never enables   *)

InitMemory ==
  /\ now = StartTime
  /\ ticks = 0
  /\ useInMemoryDb = TRUE
  /\ mongoConnect = "failed"
  /\ inMemoryDb = [todos |-> <<>>, users |-> <<>>]
  /\ User = {}
  /\ Todo = {}
  /\ nextUid = 1
  /\ nextOid = 1
  /\ reqs = [s \in Slots |-> Idle]
  /\ InitApp(NoToken)

MemoryTitles == {Undefined, JsNumber(7), JsString(<<" ", "b", " ">>)}
MemoryCompleted == {Undefined, JsBoolean(TRUE), JsString(<<"a">>)}

MemoryCreate(s) ==
  /\ Len(inMemoryDb.todos) < MaxCreates
  /\ ApiCreate(s, {FreshToken}, {JsString(<<"a">>)})

MemoryUpdate(s) ==
  /\ reqs[s] = Idle
  /\ \E i \in 1..Len(inMemoryDb.todos), title \in MemoryTitles, completed \in MemoryCompleted :
       UpdateStart(s, "api", [kind |-> "update", auth |-> FreshToken,
                              id |-> inMemoryDb.todos[i]._id,
                              title |-> title, completed |-> completed])
  /\ UNCHANGED <<clkVars, useInMemoryDb, mongoConnect, User, Todo, nextUid, nextOid, appVars>>

MemoryDelete(s) ==
  /\ reqs[s] = Idle
  /\ \E i \in 1..Len(inMemoryDb.todos) :
       DeleteStart(s, "api", [kind |-> "delete", auth |-> FreshToken,
                              id |-> inMemoryDb.todos[i]._id])
  /\ UNCHANGED <<clkVars, useInMemoryDb, mongoConnect, User, Todo, nextUid, nextOid, appVars>>

NextMemory ==
  \/ \E s \in OneSlot : MemoryCreate(s)
  \/ \E s \in OneSlot : MemoryUpdate(s)
  \/ \E s \in OneSlot : MemoryDelete(s)
  \/ \E s \in OneSlot : ApiList(s, {FreshToken})
  \/ \E s \in OneSlot : ApiReceive(s)
  \/ Tick

SpecMemory == InitMemory /\ [][NextMemory]_vars

\* An update is answered with one of the two refusals of a field's type
RefusedForType(s) ==
  /\ Enters(s, "update")
  /\ reqs'[s].pc = "done"
  /\ reqs'[s].resp \in {[status |-> 400, message |-> "Title must be a string"],
                        [status |-> 400, message |-> "Completed must be a boolean"]}

C20_NoTodosWhenLoggedOut ==
  (/\ ~isAuthenticated
   /\ ~EffectsPending
   /\ \A s \in Slots : reqs[s].pc = "idle")
    => todos = <<>>


\* C21 (stated as the claim states it): when the auth effect runs on the token
\* that a successful login has just put in place (the page is authenticated
\* and holds the user of the login response), the user view stays the id, name
\* and email of that response
C21_UserViewOfLogin ==
  [][(/\ AuthEffectRuns /\ ~MountStep
      /\ isAuthenticated /\ user # Null
      /\ isAuthenticated')
       => user' = user]_vars


\* C22: in every settled state of the page (no effect left to run),
\* isAuthenticated implies that the token in memory and the user view are both
\* present, and the token in memory is the token in localStorage (both absent
\* or both the same value)
C22_SessionConsistent ==
  ~EffectsPending
    => /\ isAuthenticated => (token # NoToken /\ user # Null)
       /\ token = localStorage

\* a settled, authenticated page on which a later login has failed
C22_Witness ==
  /\ ~EffectsPending
  /\ isAuthenticated /\ token # NoToken /\ user # Null
  /\ sent.kind = "login" /\ error # Null
  /\ \A s \in Slots : reqs[s].pc = "idle"


----------------------------------------------------------------------------
(* Start of the server: mongoose.connect(...).then/.catch with one retry,  *)
(* while the routes already accept requests                                *)

InitBoot ==
  /\ now = StartTime
  /\ ticks = 0
  /\ useInMemoryDb = FALSE
  /\ mongoConnect = "connecting"
  /\ inMemoryDb = [todos |-> <<>>, users |-> <<>>]
  /\ User = {}
  /\ Todo = {}
  /\ nextUid = 1
  /\ nextOid = 1
  /\ reqs = [s \in Slots |-> Idle]
  /\ InitApp(NoToken)

bootFrame == <<clkVars, inMemoryDb, User, Todo, nextUid, nextOid, netVars, appVars>>

\* .then of the first connect
ConnectThen ==
  /\ mongoConnect = "connecting"
  /\ mongoConnect' = "connected"
  /\ useInMemoryDb' = FALSE
  /\ UNCHANGED bootFrame

\* .catch of the first connect: the second connect is started
ConnectCatch ==
  /\ mongoConnect = "connecting"
  /\ mongoConnect' = "retrying"
  /\ UNCHANGED <<useInMemoryDb, bootFrame>>

\* .then of the second connect
RetryThen ==
  /\ mongoConnect = "retrying"
  /\ mongoConnect' = "connected"
  /\ useInMemoryDb' = FALSE
  /\ UNCHANGED bootFrame

\* Faulty variant: the fallback store is switched on when both connects fail
RetryCatchMut ==
  /\ mongoConnect = "retrying"
  /\ mongoConnect' = "failed"
  /\ useInMemoryDb' = TRUE
  /\ UNCHANGED bootFrame

\* .catch of the second connect
RetryCatch ==
  /\ mongoConnect = "retrying"
  /\ mongoConnect' = "failed"
  /\ useInMemoryDb' = FALSE
  /\ UNCHANGED bootFrame

\* A handler gets through: its store answers (MongoDB once connected; the
\* in-memory store needs no connection)
Served == mongoConnect = "connected" \/ useInMemoryDb

\* the error of a model operation that waited for a connection in vain
BufferTimeout == [name |-> "MongooseError", code |-> 0]

BootRequests ==
  RegisterForms
    \cup {[kind |-> "create", auth |-> FreshToken, title |-> JsString(<<"a">>)],
          [kind |-> "list", auth |-> FreshToken]}

\* A valid request while MongoDB is not connected: the handler takes the
\* MongoDB branch, its first model operation fails, and next(error) answers
Unserved(s) ==
  /\ ~Served
  /\ reqs[s] = Idle
  /\ \E req \in BootRequests :
       Respond(s, "api", req, "mongo:timeout", ErrorMiddleware(BufferTimeout))
  /\ UNCHANGED <<clkVars, srvVars, appVars>>

BootRegister(s) ==
  /\ Served
  /\ reqs[s] = Idle
  /\ \E req \in RegisterForms : RegisterStart(s, "api", req)
  /\ UNCHANGED <<clkVars, appVars>>

NextBoot ==
  \/ ConnectThen
  \/ ConnectCatch
  \/ RetryThen
  \/ RetryCatch
  \/ \E s \in OneSlot : Unserved(s)
  \/ \E s \in OneSlot : BootRegister(s)
  \/ \E s \in OneSlot : Served /\ RegisterSave(s)
  \/ \E s \in OneSlot : Served /\ ApiCreate(s, {FreshToken}, {JsString(<<"a">>)})
  \/ \E s \in OneSlot : Served /\ ApiList(s, {FreshToken})
  \/ \E s \in OneSlot : ApiReceive(s)
  \/ Tick

SpecBoot == InitBoot /\ [][NextBoot]_vars

\* the places at which only the in-memory branch of a handler answers (a
\* registration in memory is seen in inMemoryDb.users)
MemoryBranches ==
  {"login:memory-invalid", "list:memory", "create:memory",
   "update:memory-missing", "update:memory-title", "update:memory-completed",
   "update:memory-ok", "delete:memory-missing", "delete:memory-ok"}

\* C23: useInMemoryDb is false in every state (while the first connect is
\* pending, after it succeeds, after it fails and the retry succeeds, after
\* both fail), no request is answered from an in-memory branch, and
\* inMemoryDb.users and inMemoryDb.todos stay empty
C23_NeverInMemory ==
  /\ useInMemoryDb = FALSE
  /\ inMemoryDb.users = <<>> /\ inMemoryDb.todos = <<>>
  /\ \A s \in Slots : reqs[s].pc = "done" => reqs[s].at \notin MemoryBranches

\* both connects have failed, and a request made after that has been answered
C23_Witness ==
  /\ mongoConnect = "failed"
  /\ \E s \in Slots : reqs[s].pc = "done" /\ reqs[s].resp.status = 500


----------------------------------------------------------------------------
(* Deletes of one todo by two requests at a time                           *)

\* DELETE /api/todos/:id for an id that create has given out
RaceDelete(s) ==
  /\ reqs[s] = Idle
  /\ \E n \in 1..(nextOid - 1) :
       DeleteStart(s, "api", [kind |-> "delete", auth |-> FreshToken, id |-> ObjectId(n)])
  /\ UNCHANGED <<clkVars, useInMemoryDb, mongoConnect, User, Todo, nextUid, nextOid, appVars>>

NextDeletes ==
  \/ \E s \in Slots : ApiCreate(s, {FreshToken}, {JsString(<<"a">>)})
  \/ \E s \in Slots : RaceDelete(s)
  \/ \E s \in Slots : DeleteRemove(s)
  \/ \E s \in Slots : ApiReceive(s)

SpecDeletes == Init /\ [][NextDeletes]_vars

\* C24 (stated as the claim states it): of two delete requests for one todo
\* id that have both been answered, at most one has the success confirmation
\* and the other has 404 'Todo not found', whatever the interleaving of their
\* lookups and removals
C24_OneDeleteSucceeds ==
  \A s, t \in Slots :
    (/\ s # t
     /\ Done(s) /\ reqs[s].req.kind = "delete"
     /\ Done(t) /\ reqs[t].req.kind = "delete"
     /\ reqs[s].req.id = reqs[t].req.id
     /\ reqs[s].resp.status = 200)
      => reqs[t].resp = [status |-> 404, message |-> "Todo not found"]

====
